---- MODULE Spec2Model ----
(***************************************************************************)
(* State-machine model of the three device shims of iot-driver-copilot:    *)
(*   - usb_camera/driver.cpp          (USBCameraMQTTDriver, MQTT bridge)   *)
(*   - wheeltec_ros_robot/driver.cpp  (telemetry cache g_status + HTTP)    *)
(* Each driver is a separate process; each has its own specification       *)
(* (SpecCam, SpecRobot), and the variables of the other drivers stay at    *)
(* their initial values under it.                                          *)
(*                                                                         *)
(* The MQTT client (cli) is an opaque bridge: a call cli.subscribe /       *)
(* cli.publish hands the operation to the bridge (bridgeLog), and the      *)
(* ->wait() that follows returns once the bridge has acknowledged it.      *)
(* Callbacks of the bridge (connected, connection_lost, message arrived)   *)
(* run on the bridge's callback thread, one at a time, concurrently with   *)
(* the user threads that call the driver's methods.                        *)
(***************************************************************************)
EXTENDS Integers, Sequences, FiniteSets, TLC

\* ------------------------------------------------------------------ bounds
MaxCalls == 2       \* driver API calls (subscribeTopic / publishCommand) per run
MaxConnects == 2    \* successful (re)connections of the bridge per run
MaxMsgs == 1        \* inbound bridge messages per run
MaxUpdates == 2     \* telemetry messages delivered to the robot driver per run
MaxReads == 1       \* status reads per run

\* ------------------------------------------------------- program constants
QOS_1 == 1
TOPIC_VIDEO_STREAM == "device/telemetry/video_stream"
TOPIC_AUDIO_STREAM == "device/telemetry/audio_stream"
TOPIC_CMD_START_CAPTURE == "device/commands/start_capture"
TOPIC_CMD_STOP_CAPTURE == "device/commands/stop_capture"

Topics == {TOPIC_VIDEO_STREAM, TOPIC_AUDIO_STREAM}
\* publishCommand does not look at its topic (driver.cpp:119-124): one command
\* topic stands for all of them
CmdTopics == {TOPIC_CMD_START_CAPTURE}

Users == {"main"}                \* the user thread calling the driver (main)
CB == "cb"                       \* the bridge's callback thread
NoOwner == "free"
NoHandler == "none"              \* topic absent from the handlers map
EmptyHandler == "empty"          \* an empty std::function
UserHandlers == {"h1", "h2"}
Payloads == {"frame1", "frame2"}
Running == "running"             \* exit_code while main has not returned
Return1 == "return 1"            \* main returned 1 (driver.cpp:184)
Aborted == "aborted"             \* std::terminate ended the process
\* what locking a std::mutex does to the thread that already owns it: the
\* behaviour is undefined; the lock blocks for ever, or it throws
\* std::system_error, which leaves the bridge's callback and ends the process
RelockOutcomes == {"blocks", "throws"}

VARIABLES
    \* --- USBCameraMQTTDriver
    drv,            \* "connecting" (constructor in connect()), "ready", "dead"
    exit_code,      \* main's return value, Running while the process runs
    connected,      \* std::atomic<bool> connected
    sub_mutex,      \* owner of sub_mutex
    handlers,       \* std::map topic -> handler
    callback_set,   \* cli.set_callback has been called
    pending_subs,   \* std::vector of <<topic, qos, call id>> (the id is a ghost)
    pc,             \* position of each user thread
    arg,            \* the call each user thread is in (index into calls)
    cbpc,           \* position of the callback thread
    cbi,            \* loop index of the replay in the connected handler
    cbmsg,          \* the message the callback thread is dispatching
    \* --- history (ghost)
    calls,          \* every driver call made, in order of start; disc: `connected`
                    \* was false when it started; quiet: no callback was running
    bridgeLog,      \* every operation handed to the bridge, in order
    registered,     \* per topic, the handler the latest subscribeTopic call passed
    replaced,       \* the topics for which a call passed another handler than the
                    \* call before it
    invoked,        \* the last handler invocation: handler and payload
    msgs,           \* the last inbound message dispatched, and the handler that
                    \* was registered for its topic then
    nmsgs,          \* inbound messages dispatched so far
    ninvoked,       \* handler invocations so far
    init_failed,    \* the constructor's connect attempt failed
    nconn,          \* connected events so far
    ndone,          \* connected handlers completed so far
    \* --- ROS robot driver: RobotStatus g_status and its users
    g_status,       \* the value of each channel, field by field
    ready,          \* battery_ready, odom_ready, imu_ready, lidar_ready, camera_ready
    g_mtx,          \* owner of g_status.mtx
    rpc,            \* position of the ROS spin thread inside a callback
    rch,            \* the channel of the running callback
    rfield,         \* the field the running callback writes next
    rmsg,           \* the message the running callback copies
    hpc,            \* position of the HTTP thread inside handle_status
    hidx,           \* the channel handle_status reads next
    hfield,         \* the field handle_status reads next (0: the ready flag)
    root,           \* the Json::Value handle_status builds
    sent,           \* the last document sent by http_send_json
    \* --- history (ghost)
    hready,         \* the ready flags when handle_status took the lock
    lastUpd,        \* per channel, the last message a callback has applied (0: none)
    hlast,          \* lastUpd when handle_status took the lock
    nupd,           \* telemetry messages delivered so far
    nreads,         \* status reads completed so far
    \* --- ROS2 driver: main, update_phase_thread, the bridge client, the server
    mpc,            \* position of main
    m_connected,    \* main's local `connected` (driver.cpp:319)
    lpc,            \* position of update_phase_thread
    new_phase,      \* update_phase_thread's local new_phase
    connected_,     \* Ros2BridgeClient::connected_
    running,        \* static std::atomic<bool> running
    phase,          \* std::atomic<std::string> phase
    status_mtx,     \* owner of status_mtx
    cp_phase,       \* status.edgeDevicePhase held by the control plane
    res,            \* the httplib::Response of the last request served
    \* --- environment and history (ghost)
    stable,         \* from here on the bridge session keeps its state and the
                    \* control plane answers every report
    sigint,         \* SIGINT has been delivered
    ever_connected, \* the bridge session has been connected at some time
    tick_calls,     \* report calls made in the current iteration of the loop
    loop_result,    \* outcome of the loop's last report call
    sent_cmd,       \* what the last request handed to send_movement_command
    http_seq,       \* alternates with every request served
    http_at,        \* the body of the last request served, and connected_ and
                    \* phase when it was served
    \* --- ROS robot driver: the command handlers handle_move and handle_nav
    rob_res,        \* the response the last command request was sent
    rob_pubs,       \* the messages the last command request published, in order
    \* --- history (ghost)
    rob_alive,      \* the robot driver's process has not been terminated
    rob_req,        \* the body of the last command request
    rob_seq         \* alternates with every command request

camVars == <<drv, exit_code, connected, sub_mutex, handlers, callback_set,
             pending_subs, pc, arg, cbpc, cbi, cbmsg,
             calls, bridgeLog, registered, replaced, invoked, msgs, nmsgs, ninvoked,
             init_failed, nconn, ndone>>

robVars == <<g_status, ready, g_mtx, rpc, rch, rfield, rmsg, hpc, hidx, hfield, root,
             sent, hready, lastUpd, hlast, nupd, nreads>>

ros2Vars == <<mpc, m_connected, lpc, new_phase, connected_, running, phase,
              status_mtx, cp_phase, res, stable, sigint, ever_connected, tick_calls,
              loop_result, sent_cmd, http_seq, http_at>>

reqVars == <<rob_res, rob_pubs, rob_alive, rob_req, rob_seq>>

vars == <<camVars, robVars, ros2Vars, reqVars>>
nonCamVars == <<robVars, ros2Vars, reqVars>>
nonRobVars == <<camVars, ros2Vars, reqVars>>
nonRos2Vars == <<camVars, robVars, reqVars>>
nonReqVars == <<camVars, robVars, ros2Vars>>

\* ------------------------------------------------------------- helpers
\* handlers[topic] = userHandler           (driver.cpp:100)
\* (FirstWins: the variant that keeps an earlier registration)
RegisterHandlerFirstWins(h, topic, f) ==
    IF h[topic] = NoHandler THEN [h EXCEPT ![topic] = f] ELSE h
RegisterHandler(h, topic, f) == [h EXCEPT ![topic] = f]

\* pending_subs.emplace_back(topic, qos)   (driver.cpp:114)
Enqueue(q, topic, qos, id) == Append(q, <<topic, qos, id>>)

\* pending_subs.clear()                    (driver.cpp:147)
\* (Keeps: the variant that leaves the queue as it is)
ClearKeeps(q) == q
Clear(q) == <<>>

\* the test `if (connected)` of subscribeTopic (driver.cpp:111)
SeesConnected(c) == c

\* std::lock_guard<std::mutex> lock(sub_mutex) proceeds only while no thread
\* owns sub_mutex (driver.cpp:99,104,143)
SubMutexFreeNoLock(m) == TRUE
SubMutexFree(m) == m = NoOwner

\* the handler the dispatch callback finds for a topic (driver.cpp:105-106):
\* none when the topic is absent or the std::function is empty
Lookup(h, topic) ==
    IF h[topic] \in {NoHandler, EmptyHandler} THEN NoHandler ELSE h[topic]

\* cli.subscribe(topic, qos) / cli.publish(msg): the bridge receives the op;
\* live: the op left a subscription in the bridge's current session
BridgeOp(op, topic, id, via) ==
    [op |-> op, topic |-> topic, id |-> id, via |-> via, live |-> op = "subscribe"]

\* set_clean_session(true) (driver.cpp:139): the subscriptions of the bridge
\* end with the session
EndSession(log) == [k \in 1..Len(log) |-> [log[k] EXCEPT !.live = FALSE]]

NoInvocation == [handler |-> NoHandler, payload |-> "none"]
NoMessage == [topic |-> "none", payload |-> "none", expected |-> NoHandler,
              replaced |-> FALSE]

CamInit ==
    /\ drv = "connecting"
    /\ exit_code = Running
    /\ connected = FALSE
    /\ sub_mutex = NoOwner
    /\ handlers = [t \in Topics |-> NoHandler]
    /\ callback_set = FALSE
    /\ pending_subs = <<>>
    /\ pc = [u \in Users |-> "idle"]
    /\ arg = [u \in Users |-> 0]
    /\ cbpc = "idle"
    /\ cbi = 0
    /\ cbmsg = <<>>
    /\ calls = <<>>
    /\ bridgeLog = <<>>
    /\ registered = [t \in Topics |-> NoHandler]
    /\ replaced = {}
    /\ invoked = NoInvocation
    /\ msgs = NoMessage
    /\ nmsgs = 0
    /\ ninvoked = 0
    /\ init_failed = FALSE
    /\ nconn = 0
    /\ ndone = 0

\* ================================================= ROS robot driver
\* the telemetry channels in the order handle_status reads them, under the keys
\* of the status document (driver.cpp:176-230)
ChannelOrder == <<"battery", "odometry", "imu", "lidar", "camera">>
Channels == {ChannelOrder[k] : k \in 1..Len(ChannelOrder)}
\* battery is one float; a message struct is copied and read field by field, of
\* which the model keeps the first and the last
NFields(ch) == IF ch = "battery" THEN 1 ELSE 2
SPIN == "spin"                   \* the thread of ros::spinOnce (driver.cpp:391-394)
HTTP == "http"                   \* a request thread of HttpServer (driver.cpp:160-163)
\* an entry of the status document: the key is absent, or holds null
\* (Json::Value()), or holds the fields read from g_status
Absent == [kind |-> "absent", fields |-> <<>>]
JsonNull == [kind |-> "null", fields |-> <<>>]
JsonValue(fs) == [kind |-> "value", fields |-> fs]

\* std::lock_guard<std::mutex> lk(g_status.mtx) can take the mutex
\* (driver.cpp:84,89,94,99,104,173)
MtxFreeNoLock(m) == TRUE
MtxFree(m) == m = NoOwner

\* g_status.<ch>_ready = true (driver.cpp:86,91,96,101,106)
SetReadyToggle(r, ch) == [r EXCEPT ![ch] = ~r[ch]]
SetReady(r, ch) == [r EXCEPT ![ch] = TRUE]

\* g_status.<field> = <field of the message>: the assignment overwrites the old
\* value (driver.cpp:85,90,95,100,105)
\* (KeepsFirst: the variant that writes only a field never written before)
CopyFieldKeepsFirst(old, new) == IF old = 0 THEN new ELSE old
CopyField(old, new) == new

\* what handle_status puts in the document for a channel that is not ready: the
\* battery key with a null value, no key for the others (driver.cpp:176,179,196,
\* 210,222)
NotReadyEntryZero(ch) == IF ch = "battery" THEN JsonValue(<<0>>) ELSE Absent
NotReadyEntry(ch) == IF ch = "battery" THEN JsonNull ELSE Absent

RobotInit ==
    /\ g_status = [c \in Channels |-> [f \in 1..NFields(c) |-> 0]]
    /\ ready = [c \in Channels |-> FALSE]
    /\ g_mtx = NoOwner
    /\ rpc = "idle"
    /\ rch = "battery"
    /\ rfield = 0
    /\ rmsg = 0
    /\ hpc = "idle"
    /\ hidx = 0
    /\ hfield = 0
    /\ root = [c \in Channels |-> Absent]
    /\ sent = [c \in Channels |-> Absent]
    /\ hready = [c \in Channels |-> FALSE]
    /\ lastUpd = [c \in Channels |-> 0]
    /\ hlast = [c \in Channels |-> 0]
    /\ nupd = 0
    /\ nreads = 0

\* ================================================= ROS2 driver
\* the phase update_phase_thread derives from bridge->is_connected()
\* (driver.cpp:269-271)
CandidatePhase(is_conn) == IF is_conn THEN "Running" ELSE "Pending"

\* the phase main reports and stores after connect() (driver.cpp:320-321)
InitialPhase(c) == IF c THEN "Running" ELSE "Failed"

\* Ros2BridgeClient::connect(): the stub sets connected_ and returns it
\* (driver.cpp:196-201)
ConnectResult == TRUE

\* the values patch_edgedevice_phase can return: false when curl fails or the
\* status code is not 2xx (driver.cpp:120-125)
PatchOutcomes == IF stable THEN {TRUE} ELSE BOOLEAN

\* the control plane holds the phase of a PATCH it answered with 2xx
\* (driver.cpp:101,120-125)
Patched(cp, p, ok) == IF ok THEN p ELSE cp

\* if (phase.load() != new_phase)  (driver.cpp:274)
\* (Always: the variant that reports at every tick)
DiffersAlways(a, b) == TRUE
Differs(a, b) == a # b

\* if (patch_edgedevice_phase(...)) phase.store(new_phase)  (driver.cpp:275)
\* (Always: the variant that stores whatever the call returned)
StoreAlways(ok, old, new) == new
StoreOnSuccess(ok, old, new) == IF ok THEN new ELSE old

\* the directions send_movement_command accepts (driver.cpp:214-215)
ValidDirections == {"forward", "backward", "left", "right", "stop"}

\* a JSON member of a request body: not there, a string, or a number
NoMember == [t |-> "none", v |-> ""]
StrMember(x) == [t |-> "str", v |-> x]
NumMember == [t |-> "num", v |-> "1"]
\* the bodies of POST /move: text that does not parse, or an object whose
\* "direction" member is one of the above
MoveBodies ==
    [parses : BOOLEAN,
     direction : {NoMember, NumMember, StrMember(""), StrMember("forward"),
                  StrMember("stop"), StrMember("jump")}]

\* a request without a body (GET)
NoBody == [parses |-> FALSE, direction |-> NoMember]

\* httplib::Response and the JSON document the handler puts in it
NoResponse ==
    [route |-> "none", status |-> 0, st |-> "none", message |-> "none",
     direction |-> "none"]
\* GET /healthz (driver.cpp:334-336): the handler sets the content only, and the
\* server answers 200
\* (IfConnected: the variant that answers by the bridge session)
HealthzResponseIfConnected ==
    [route |-> "/healthz", status |-> IF connected_ THEN 200 ELSE 503,
     st |-> IF connected_ THEN "ok" ELSE "fail", message |-> "none",
     direction |-> "none"]
HealthzResponse ==
    [route |-> "/healthz", status |-> 200, st |-> "ok", message |-> "none",
     direction |-> "none"]

\* Ros2BridgeClient::send_movement_command (driver.cpp:208-216)
send_movement_command(is_conn, direction) ==
    IF ~is_conn THEN FALSE ELSE direction \in ValidDirections

\* handle_move of the ROS2 driver (driver.cpp:227-257): the response to a body.
\* nlohmann::json::parse throws on text that does not parse and
\* payload.value("direction", "") throws on a member that is not a string; both
\* land in catch (...).
MoveResponse(body, is_conn) ==
    IF ~body.parses \/ body.direction.t = "num"
    THEN [route |-> "/move", status |-> 400, st |-> "error",
          message |-> "Invalid JSON payload", direction |-> "none"]
    ELSE IF body.direction.v = ""
    THEN [route |-> "/move", status |-> 400, st |-> "error",
          message |-> "Missing 'direction' field", direction |-> "none"]
    ELSE IF send_movement_command(is_conn, body.direction.v)
    THEN [route |-> "/move", status |-> 200, st |-> "ok",
          message |-> "Movement command sent", direction |-> body.direction.v]
    ELSE [route |-> "/move", status |-> 500, st |-> "fail",
          message |-> "Failed to send command", direction |-> "none"]

\* the direction handle_move hands to send_movement_command, "none" when the
\* handler returns before line 239
MoveSent(body) ==
    IF ~body.parses \/ body.direction.t = "num" \/ body.direction.v = ""
    THEN "none" ELSE body.direction.v

Ros2Init ==
    /\ mpc = "m289"
    /\ m_connected = FALSE
    /\ lpc = "off"
    /\ new_phase = "Unknown"
    /\ connected_ = FALSE
    /\ running = TRUE
    /\ phase = "Pending"
    /\ status_mtx = NoOwner
    /\ cp_phase = "none"
    /\ res = NoResponse
    /\ stable = FALSE
    /\ sigint = FALSE
    /\ ever_connected = FALSE
    /\ tick_calls = 0
    /\ loop_result = "none"
    /\ sent_cmd = "none"
    /\ http_seq = 0
    /\ http_at = [body |-> NoBody, conn |-> FALSE, phase |-> "Pending"]

\* ================================================= ROS robot driver: commands
\* a member of a command body where a number is expected: a number, not there,
\* null, true, or a string
Num(x) == [t |-> "num", v |-> x]
NoNum == [t |-> "none", v |-> 0]
NullNum == [t |-> "null", v |-> 0]
TrueNum == [t |-> "bool", v |-> 1]
StrNum == [t |-> "str", v |-> 0]
\* "points" is an array or something else; "algorithm" is a string
ArrayMember == [t |-> "array", v |-> ""]
\* the bodies of POST /move and POST /nav: text that does not parse, an object
\* written for /move (some of linear and angular) or an object written for /nav
\* (some of points and algorithm)
Unparseable ==
    [parses |-> FALSE, linear |-> NoNum, angular |-> NoNum, points |-> NoMember,
     algorithm |-> NoMember]
CommandBodies ==
    {Unparseable} \cup
    [parses : {TRUE},
     linear : {NoNum, Num(1), NullNum, StrNum},
     angular : {NoNum, Num(2), TrueNum},
     points : {NoMember},
     algorithm : {NoMember}] \cup
    [parses : {TRUE},
     linear : {NoNum},
     angular : {NoNum},
     points : {NoMember, ArrayMember, StrMember("home")},
     algorithm : {NoMember, StrMember("astar")}]

\* Json::Value::asDouble() (driver.cpp:292-293): the number itself, 0.0 for
\* null, 1.0 for true. A string is not convertible: the library fails the
\* conversion (it throws, and the exception leaves the detached request thread:
\* std::terminate), or, built with its checks compiled out, returns 0.0.
Converts(m, strict) == m.t # "str" \/ ~strict
asDouble(m) == IF m.t = "str" THEN 0 ELSE m.v
\* the builds of the JSON library: with or without the conversion check
Builds == BOOLEAN

\* !req.isMember("linear") || !req.isMember("angular") is false (driver.cpp:288)
\* (Either: the variant that asks for one of the two members only)
MoveMembersPresentEither(body) ==
    body.linear.t # "none" \/ body.angular.t # "none"
MoveMembersPresent(body) ==
    body.linear.t # "none" /\ body.angular.t # "none"

\* !req.isMember("points") || !req["points"].isArray() is false (driver.cpp:263)
PointsPresent(body) == body.points.t = "array"

\* http_error(client_sock, code, msg) and http_send_json(client_sock, resp)
\* (driver.cpp:56-67)
http_error(route, code, msg) ==
    [route |-> route, code |-> code, msg |-> msg, status |-> "none",
     linear |-> 0, angular |-> 0, algorithm |-> "none"]
http_send_json(route, status, linear, angular, algorithm) ==
    [route |-> route, code |-> 200, msg |-> "none", status |-> status,
     linear |-> linear, angular |-> angular, algorithm |-> algorithm]
NoRobResponse == http_error("none", 0, "none")
\* the request thread is gone before it answers
Terminated(route) == http_error(route, 0, "terminate")

\* a message handed to g_move_pub.publish / g_nav_pub.publish
\* (driver.cpp:272,298; the topics are advertised at 380-381)
Twist(linear, angular) ==
    [topic |-> "/cmd_vel", linear |-> linear, angular |-> angular, data |-> "none"]
NavCmd(body) ==
    [topic |-> "/nav_cmd", linear |-> 0, angular |-> 0, data |-> body.points.t]

\* handle_move of the ROS robot driver (driver.cpp:281-305): the response
RobMoveResponse(body, strict) ==
    IF ~body.parses THEN http_error("/move", 400, "Invalid JSON")
    ELSE IF ~MoveMembersPresent(body)
    THEN http_error("/move", 400, "Missing 'linear' or 'angular'")
    ELSE IF ~(Converts(body.linear, strict) /\ Converts(body.angular, strict))
    THEN Terminated("/move")
    ELSE http_send_json("/move", "ok", asDouble(body.linear),
                        asDouble(body.angular), "none")

\* handle_move: the publishes, in order (driver.cpp:295-298)
\* (Twice: the variant that publishes the message a second time)
RobMovePublishesTwice(body, strict) ==
    IF /\ body.parses
       /\ MoveMembersPresent(body)
       /\ Converts(body.linear, strict)
       /\ Converts(body.angular, strict)
    THEN <<Twist(asDouble(body.linear), asDouble(body.angular)),
           Twist(asDouble(body.linear), asDouble(body.angular))>>
    ELSE <<>>
RobMovePublishes(body, strict) ==
    IF /\ body.parses
       /\ MoveMembersPresent(body)
       /\ Converts(body.linear, strict)
       /\ Converts(body.angular, strict)
    THEN <<Twist(asDouble(body.linear), asDouble(body.angular))>>
    ELSE <<>>

\* handle_nav (driver.cpp:256-278): the response and the publishes
NavResponse(body) ==
    IF ~body.parses THEN http_error("/nav", 400, "Invalid JSON")
    ELSE IF ~PointsPresent(body)
    THEN http_error("/nav", 400, "Missing 'points' array")
    ELSE http_send_json("/nav", "ok", 0, 0,
                        IF body.algorithm.t = "none" THEN "dijkstra"
                        ELSE body.algorithm.v)
NavPublishes(body) ==
    IF body.parses /\ PointsPresent(body) THEN <<NavCmd(body)>> ELSE <<>>

ReqInit ==
    /\ rob_res = NoRobResponse
    /\ rob_pubs = <<>>
    /\ rob_alive = TRUE
    /\ rob_req = Unparseable
    /\ rob_seq = 0

\* every driver process starts in its initial state
Init == CamInit /\ RobotInit /\ Ros2Init /\ ReqInit

\* battery_cb / odom_cb / imu_cb / lidar_cb / camera_cb: a message arrives on
\* channel ch and the callback takes the lock (driver.cpp:83-84,88-89,...)
telemetry_cb_lock(ch) ==
    /\ rpc = "idle"
    /\ nupd < MaxUpdates
    /\ MtxFree(g_mtx)
    /\ g_mtx' = SPIN
    /\ rch' = ch
    /\ rmsg' = nupd + 1
    /\ nupd' = nupd + 1
    /\ rfield' = 1
    /\ rpc' = "copy"
    /\ UNCHANGED <<g_status, ready, hpc, hidx, hfield, root, sent, hready,
                   lastUpd, hlast, nreads, nonRobVars>>

\* the callback copies the message into g_status, one field per step
\* (driver.cpp:85,90,95,100,105)
telemetry_cb_copy ==
    /\ rpc = "copy"
    /\ g_status' = [g_status EXCEPT ![rch][rfield] = CopyField(@, rmsg)]
    /\ IF rfield < NFields(rch)
       THEN rfield' = rfield + 1 /\ rpc' = "copy"
       ELSE rfield' = 0 /\ rpc' = "flag"
    /\ UNCHANGED <<ready, g_mtx, rch, rmsg, hpc, hidx, hfield, root, sent, hready,
                   lastUpd, hlast, nupd, nreads, nonRobVars>>

\* the callback sets the channel's ready flag and returns, releasing the lock
\* (driver.cpp:86-87,91-92,...)
telemetry_cb_ready ==
    /\ rpc = "flag"
    /\ ready' = SetReady(ready, rch)
    /\ lastUpd' = [lastUpd EXCEPT ![rch] = rmsg]
    /\ g_mtx' = NoOwner
    /\ rpc' = "idle"
    /\ UNCHANGED <<g_status, rch, rfield, rmsg, hpc, hidx, hfield, root, sent,
                   hready, hlast, nupd, nreads, nonRobVars>>

\* handle_status: Json::Value root; lock g_status.mtx (driver.cpp:170-173)
handle_status_lock ==
    /\ hpc = "idle"
    /\ nreads < MaxReads
    /\ MtxFree(g_mtx)
    /\ g_mtx' = HTTP
    /\ root' = [c \in Channels |-> Absent]
    /\ hready' = ready
    /\ hlast' = lastUpd
    /\ hidx' = 1
    /\ hfield' = 0
    /\ hpc' = "read"
    /\ UNCHANGED <<g_status, ready, rpc, rch, rfield, rmsg, sent, lastUpd, nupd,
                   nreads, nonRobVars>>

\* handle_status tests the ready flag of the next channel (driver.cpp:176,179,
\* 196,210,222)
handle_status_test ==
    /\ hpc = "read"
    /\ hidx <= Len(ChannelOrder)
    /\ hfield = 0
    /\ IF ready[ChannelOrder[hidx]]
       THEN /\ root' = [root EXCEPT ![ChannelOrder[hidx]] = JsonValue(<<>>)]
            /\ hfield' = 1
            /\ hidx' = hidx
       ELSE /\ root' = [root EXCEPT ![ChannelOrder[hidx]] =
                                        NotReadyEntry(ChannelOrder[hidx])]
            /\ hfield' = 0
            /\ hidx' = hidx + 1
    /\ UNCHANGED <<g_status, ready, g_mtx, rpc, rch, rfield, rmsg, hpc, sent,
                   hready, lastUpd, hlast, nupd, nreads, nonRobVars>>

\* handle_status copies the next field of a ready channel into the document
\* (driver.cpp:176,181-193,198-207,212-219,224-228)
handle_status_field ==
    /\ hpc = "read"
    /\ hidx <= Len(ChannelOrder)
    /\ hfield >= 1
    /\ root' = [root EXCEPT ![ChannelOrder[hidx]] =
                     JsonValue(Append(@.fields, g_status[ChannelOrder[hidx]][hfield]))]
    /\ IF hfield < NFields(ChannelOrder[hidx])
       THEN hfield' = hfield + 1 /\ hidx' = hidx
       ELSE hfield' = 0 /\ hidx' = hidx + 1
    /\ UNCHANGED <<g_status, ready, g_mtx, rpc, rch, rfield, rmsg, hpc, sent,
                   hready, lastUpd, hlast, nupd, nreads, nonRobVars>>

\* the block ends: the lock_guard releases g_status.mtx (driver.cpp:231)
handle_status_unlock ==
    /\ hpc = "read"
    /\ hidx > Len(ChannelOrder)
    /\ g_mtx' = NoOwner
    /\ hpc' = "send"
    /\ UNCHANGED <<g_status, ready, rpc, rch, rfield, rmsg, hidx, hfield, root,
                   sent, hready, lastUpd, hlast, nupd, nreads, nonRobVars>>

\* http_send_json(client_sock, root) (driver.cpp:232)
handle_status_send ==
    /\ hpc = "send"
    /\ sent' = root
    /\ nreads' = nreads + 1
    /\ hpc' = "idle"
    /\ UNCHANGED <<g_status, ready, g_mtx, rpc, rch, rfield, rmsg, hidx, hfield,
                   root, hready, lastUpd, hlast, nupd, nonRobVars>>

RobotNext ==
    \/ \E ch \in Channels : telemetry_cb_lock(ch)
    \/ telemetry_cb_copy
    \/ telemetry_cb_ready
    \/ handle_status_lock
    \/ handle_status_test
    \/ handle_status_field
    \/ handle_status_unlock
    \/ handle_status_send

SpecRobot == Init /\ [][RobotNext]_vars

\* ------------------------------------------------------------ call history
InLog(id) == \E k \in 1..Len(bridgeLog) : bridgeLog[k].id = id
LogPos(id) == CHOOSE k \in 1..Len(bridgeLog) : bridgeLog[k].id = id
LogCount(id) == Cardinality({k \in 1..Len(bridgeLog) : bridgeLog[k].id = id})
PendingCount(id) == Cardinality({k \in 1..Len(pending_subs) : pending_subs[k][3] = id})
\* the bridge holds a subscription for the topic: with set_clean_session(true)
\* (driver.cpp:139) a subscription lives as long as the session it was made
\* in, and a reconnect starts a session without subscriptions
Subscribed(topic) ==
    \E k \in 1..Len(bridgeLog) :
        /\ bridgeLog[k].op = "subscribe"
        /\ bridgeLog[k].topic = topic
        /\ bridgeLog[k].live

\* ------------------------------------------- constructor and connect()
\* cli.connect(connOpts)->wait() fails: the exception leaves connect() and the
\* constructor; main's catch prints it and returns 1 (driver.cpp:43,154,182-185)
connect_fails ==
    /\ drv = "connecting"
    /\ drv' = "dead"
    /\ exit_code' = Return1
    /\ init_failed' = TRUE
    /\ UNCHANGED <<connected, sub_mutex, handlers, callback_set, pending_subs, pc,
                   arg, cbpc, cbi, cbmsg, calls, bridgeLog, invoked, msgs,
                   nconn, ndone,
                   registered, replaced, nmsgs, ninvoked, nonCamVars>>

\* the bridge session comes up (the first connect, or an automatic reconnect):
\* the callback thread enters the connected handler, and the constructor's
\* wait() returns (driver.cpp:138,141,154)
bridge_connects ==
    /\ drv \in {"connecting", "ready"}
    /\ ~connected
    /\ cbpc = "idle"
    /\ nconn < MaxConnects
    /\ drv' = "ready"
    /\ cbpc' = "c142"
    /\ nconn' = nconn + 1
    /\ UNCHANGED <<exit_code, connected, sub_mutex, handlers, callback_set,
                   pending_subs, pc, arg, cbi, cbmsg, calls, bridgeLog,
                   invoked, msgs, ndone,
                   init_failed,
                   registered, replaced, nmsgs, ninvoked, nonCamVars>>

\* connected handler, `connected = true;` (driver.cpp:142)
connected_handler_set ==
    /\ cbpc = "c142"
    /\ connected' = TRUE
    /\ cbpc' = "c143"
    /\ UNCHANGED <<drv, exit_code, sub_mutex, handlers, callback_set, pending_subs,
                   pc, arg, cbi, cbmsg, calls, bridgeLog, invoked, msgs,
                   nconn, ndone,
                   init_failed,
                   registered, replaced, nmsgs, ninvoked, nonCamVars>>

\* connected handler, lock_guard on sub_mutex (driver.cpp:143)
connected_handler_lock ==
    /\ cbpc = "c143"
    /\ SubMutexFree(sub_mutex)
    /\ sub_mutex' = CB
    /\ cbi' = 1
    /\ cbpc' = "c144"
    /\ UNCHANGED <<drv, exit_code, connected, handlers, callback_set, pending_subs,
                   pc, arg, cbmsg, calls, bridgeLog, invoked, msgs, nconn,
                   ndone,
                   init_failed,
                   registered, replaced, nmsgs, ninvoked, nonCamVars>>

\* connected handler, one iteration of the replay loop: cli.subscribe of the next
\* pending entry (driver.cpp:144-145)
connected_handler_replay ==
    /\ cbpc = "c144"
    /\ cbi <= Len(pending_subs)
    /\ bridgeLog' = Append(bridgeLog,
                           BridgeOp("subscribe", pending_subs[cbi][1],
                                    pending_subs[cbi][3], "replay"))
    /\ cbpc' = "c145"
    /\ UNCHANGED <<drv, exit_code, connected, sub_mutex, handlers, callback_set,
                   pending_subs, pc, arg, cbi, cbmsg, calls, invoked, msgs,
                   nconn, ndone,
                   init_failed,
                   registered, replaced, nmsgs, ninvoked, nonCamVars>>

\* connected handler: the bridge acknowledges the replayed subscribe and its
\* ->wait() returns (driver.cpp:145)
connected_handler_wait ==
    /\ cbpc = "c145"
    /\ cbi' = cbi + 1
    /\ cbpc' = "c144"
    /\ UNCHANGED <<drv, exit_code, connected, sub_mutex, handlers, callback_set,
                   pending_subs, pc, arg, cbmsg, calls, bridgeLog, invoked, msgs,
                   nconn, ndone,
                   init_failed,
                   registered, replaced, nmsgs, ninvoked, nonCamVars>>

\* connected handler, end of the loop: pending_subs.clear() and the lock_guard
\* releases sub_mutex (driver.cpp:147-148)
connected_handler_clear ==
    /\ cbpc = "c144"
    /\ cbi > Len(pending_subs)
    /\ pending_subs' = Clear(pending_subs)
    /\ sub_mutex' = NoOwner
    /\ cbi' = 0
    /\ cbpc' = "idle"
    /\ ndone' = ndone + 1
    /\ UNCHANGED <<drv, exit_code, connected, handlers, callback_set, pc, arg,
                   cbmsg, calls, bridgeLog, invoked, msgs, nconn,
                   init_failed,
                   registered, replaced, nmsgs, ninvoked, nonCamVars>>

\* the bridge session ends and the connection_lost handler runs:
\* `connected = false;` (driver.cpp:139, 150-152)
connection_lost_handler ==
    /\ drv = "ready"
    /\ connected
    /\ cbpc = "idle"
    /\ connected' = FALSE
    /\ bridgeLog' = EndSession(bridgeLog)
    /\ UNCHANGED <<drv, exit_code, sub_mutex, handlers, callback_set, pending_subs,
                   pc, arg, cbpc, cbi, cbmsg, calls, invoked,
                   msgs, nconn, ndone,
                   init_failed,
                   registered, replaced, nmsgs, ninvoked, nonCamVars>>

\* ------------------------------------------------------- subscribeTopic
\* lock sub_mutex, handlers[topic] = userHandler, cli.set_callback
\* (driver.cpp:98-109)
subscribeTopic_enter(u, topic, h) ==
    /\ drv = "ready"
    /\ pc[u] = "idle"
    /\ Len(calls) < MaxCalls
    /\ SubMutexFree(sub_mutex)
    /\ sub_mutex' = u
    /\ handlers' = RegisterHandler(handlers, topic, h)
    /\ callback_set' = TRUE
    /\ registered' = [registered EXCEPT ![topic] = h]
    /\ replaced' = IF registered[topic] \in {NoHandler, h}
                   THEN replaced ELSE replaced \cup {topic}
    /\ calls' = Append(calls, [kind |-> "sub", topic |-> topic,
                               disc |-> ~connected, quiet |-> cbpc = "idle"])
    /\ arg' = [arg EXCEPT ![u] = Len(calls) + 1]
    /\ pc' = [pc EXCEPT ![u] = "s111"]
    /\ UNCHANGED <<drv, exit_code, connected, pending_subs, cbpc, cbi, cbmsg,
                   bridgeLog, invoked, msgs, nconn, ndone,
                   init_failed,
                   nmsgs, ninvoked, nonCamVars>>

\* `if (connected)`: cli.subscribe(topic, qos) (driver.cpp:111-112)
subscribeTopic_direct(u) ==
    /\ pc[u] = "s111"
    /\ SeesConnected(connected)
    /\ bridgeLog' = Append(bridgeLog,
                           BridgeOp("subscribe", calls[arg[u]].topic, arg[u], "direct"))
    /\ pc' = [pc EXCEPT ![u] = "s112"]
    /\ UNCHANGED <<drv, exit_code, connected, sub_mutex, handlers, callback_set,
                   pending_subs, arg, cbpc, cbi, cbmsg, calls, invoked, msgs,
                   nconn, ndone,
                   init_failed,
                   registered, replaced, nmsgs, ninvoked, nonCamVars>>

\* `if (connected)` reads false: the call takes the else branch, sub_mutex
\* still held (driver.cpp:111,113)
subscribeTopic_else(u) ==
    /\ pc[u] = "s111"
    /\ ~SeesConnected(connected)
    /\ pc' = [pc EXCEPT ![u] = "s114"]
    /\ UNCHANGED <<drv, exit_code, connected, sub_mutex, handlers, callback_set,
                   pending_subs, arg, cbpc, cbi, cbmsg, calls, bridgeLog, invoked,
                   msgs, nconn, ndone,
                   init_failed,
                   registered, replaced, nmsgs, ninvoked, nonCamVars>>

\* pending_subs.emplace_back(topic, qos); return releases sub_mutex
\* (driver.cpp:114-116)
subscribeTopic_queue(u) ==
    /\ pc[u] = "s114"
    /\ pending_subs' = Enqueue(pending_subs, calls[arg[u]].topic, QOS_1, arg[u])
    /\ sub_mutex' = NoOwner
    /\ pc' = [pc EXCEPT ![u] = "idle"]
    /\ UNCHANGED <<drv, exit_code, connected, handlers, callback_set, arg, cbpc,
                   cbi, cbmsg, calls, bridgeLog, invoked, msgs, nconn, ndone,
                   init_failed,
                   registered, replaced, nmsgs, ninvoked, nonCamVars>>

\* the bridge acknowledges the subscribe and its ->wait() returns; the return
\* releases sub_mutex (driver.cpp:112,116)
subscribeTopic_wait(u) ==
    /\ pc[u] = "s112"
    /\ sub_mutex' = NoOwner
    /\ pc' = [pc EXCEPT ![u] = "idle"]
    /\ UNCHANGED <<drv, exit_code, connected, handlers, callback_set, pending_subs,
                   arg, cbpc, cbi, cbmsg, calls, bridgeLog, invoked, msgs, nconn,
                   ndone,
                   init_failed,
                   registered, replaced, nmsgs, ninvoked, nonCamVars>>

\* ------------------------------------------------------- publishCommand
\* make_message and cli.publish(msg) (driver.cpp:119-123); called by
\* startCapture, stopCapture and the adjust* methods (driver.cpp:64-93)
publishCommand_send(u, topic) ==
    /\ drv = "ready"
    /\ pc[u] = "idle"
    /\ Len(calls) < MaxCalls
    /\ calls' = Append(calls, [kind |-> "pub", topic |-> topic,
                               disc |-> ~connected, quiet |-> cbpc = "idle"])
    /\ arg' = [arg EXCEPT ![u] = Len(calls) + 1]
    /\ bridgeLog' = Append(bridgeLog,
                           BridgeOp("publish", topic, Len(calls) + 1, "direct"))
    /\ pc' = [pc EXCEPT ![u] = "p123"]
    /\ UNCHANGED <<drv, exit_code, connected, sub_mutex, handlers, callback_set,
                   pending_subs, cbpc, cbi, cbmsg, invoked, msgs, nconn,
                   ndone,
                   init_failed,
                   registered, replaced, nmsgs, ninvoked, nonCamVars>>

\* the bridge acknowledges the publish and its ->wait() returns (driver.cpp:123)
publishCommand_wait(u) ==
    /\ drv = "ready"
    /\ pc[u] = "p123"
    /\ pc' = [pc EXCEPT ![u] = "idle"]
    /\ UNCHANGED <<drv, exit_code, connected, sub_mutex, handlers, callback_set,
                   pending_subs, arg, cbpc, cbi, cbmsg, calls, bridgeLog, invoked,
                   msgs, nconn, ndone,
                   init_failed,
                   registered, replaced, nmsgs, ninvoked, nonCamVars>>

\* ------------------------------------------------------------ the bridge
\* a message arrives on a subscribed topic: the callback thread enters the
\* callback set by cli.set_callback (driver.cpp:101-103)
message_arrives(topic, payload) ==
    /\ drv = "ready"
    /\ connected
    /\ callback_set
    /\ cbpc = "idle"
    /\ Subscribed(topic)
    /\ nmsgs < MaxMsgs
    /\ cbmsg' = <<topic, payload>>
    /\ cbpc' = "d104"
    /\ UNCHANGED <<drv, exit_code, connected, sub_mutex, handlers, callback_set,
                   pending_subs, pc, arg, cbi, calls, bridgeLog, invoked,
                   msgs, nconn, ndone,
                   init_failed,
                   registered, replaced, nmsgs, ninvoked, nonCamVars>>

\* the callback locks sub_mutex, finds the topic's handler and invokes it with
\* the payload; the lock_guard releases sub_mutex (driver.cpp:104-108)
message_dispatch ==
    /\ cbpc = "d104"
    /\ SubMutexFree(sub_mutex)
    /\ msgs' = [topic |-> cbmsg[1], payload |-> cbmsg[2],
                expected |-> registered[cbmsg[1]],
                replaced |-> cbmsg[1] \in replaced]
    /\ nmsgs' = nmsgs + 1
    /\ IF Lookup(handlers, cbmsg[1]) # NoHandler
       THEN /\ invoked' = [handler |-> Lookup(handlers, cbmsg[1]),
                           payload |-> cbmsg[2]]
            /\ ninvoked' = ninvoked + 1
       ELSE /\ invoked' = NoInvocation
            /\ ninvoked' = ninvoked
    /\ cbmsg' = <<>>
    /\ cbpc' = "idle"
    /\ UNCHANGED <<drv, exit_code, connected, sub_mutex, handlers, callback_set,
                   pending_subs, pc, arg, cbi, calls, bridgeLog, registered,
                   replaced, init_failed, nconn, ndone, nonCamVars>>

\* the callback locks sub_mutex and invokes the topic's handler, and the handler
\* calls subscribeTopic from inside its invocation (a user handler is free to):
\* subscribeTopic's lock_guard locks sub_mutex on the thread that owns it
\* (driver.cpp:104-107, 98-99)
message_dispatch_reenters(outcome) ==
    /\ cbpc = "d104"
    /\ SubMutexFree(sub_mutex)
    /\ Lookup(handlers, cbmsg[1]) # NoHandler
    /\ sub_mutex' = CB
    /\ msgs' = [topic |-> cbmsg[1], payload |-> cbmsg[2],
                expected |-> registered[cbmsg[1]],
                replaced |-> cbmsg[1] \in replaced]
    /\ nmsgs' = nmsgs + 1
    /\ invoked' = [handler |-> Lookup(handlers, cbmsg[1]), payload |-> cbmsg[2]]
    /\ ninvoked' = ninvoked + 1
    /\ IF outcome = "blocks"
       THEN /\ cbpc' = "s99"
            /\ UNCHANGED <<drv, exit_code>>
       ELSE /\ cbpc' = "aborted"
            /\ drv' = "dead"
            /\ exit_code' = Aborted
    /\ UNCHANGED <<connected, handlers, callback_set, pending_subs, pc, arg, cbi,
                   cbmsg, calls, bridgeLog, registered, replaced, init_failed,
                   nconn, ndone, nonCamVars>>

CamNext ==
    \/ connect_fails
    \/ bridge_connects
    \/ connected_handler_set
    \/ connected_handler_lock
    \/ connected_handler_replay
    \/ connected_handler_wait
    \/ connected_handler_clear
    \/ connection_lost_handler
    \/ \E u \in Users, topic \in Topics, h \in UserHandlers :
          subscribeTopic_enter(u, topic, h)
    \/ \E u \in Users : subscribeTopic_direct(u)
    \/ \E u \in Users : subscribeTopic_else(u)
    \/ \E u \in Users : subscribeTopic_queue(u)
    \/ \E u \in Users : subscribeTopic_wait(u)
    \/ \E u \in Users, topic \in CmdTopics : publishCommand_send(u, topic)
    \/ \E u \in Users : publishCommand_wait(u)
    \/ \E topic \in Topics, payload \in Payloads : message_arrives(topic, payload)
    \/ message_dispatch
    \/ \E outcome \in RelockOutcomes : message_dispatch_reenters(outcome)

SpecCam == Init /\ [][CamNext]_vars

\* The driver's own steps: they wait for nothing but the scheduler. The steps
\* that need the bridge (a connect, a loss, an acknowledgement, a message) and the
\* calls a user decides to make carry no fairness.
CamDriverStep ==
    \/ connected_handler_set
    \/ connected_handler_lock
    \/ connected_handler_replay
    \/ connected_handler_clear
    \/ \E u \in Users : subscribeTopic_direct(u)
    \/ \E u \in Users : subscribeTopic_else(u)
    \/ \E u \in Users : subscribeTopic_queue(u)
    \/ message_dispatch

FairSpecCam == SpecCam /\ WF_vars(CamDriverStep)

\* the bridge acknowledges what it is sent
BridgeAckStep ==
    \/ connected_handler_wait
    \/ \E u \in Users : subscribeTopic_wait(u)
    \/ \E u \in Users : publishCommand_wait(u)

\* the driver's threads keep running and the bridge acknowledges
FairAckSpecCam == FairSpecCam /\ WF_vars(BridgeAckStep)

\* =================================================== USB camera: claims
SubCalls == {i \in 1..Len(calls) : calls[i].kind = "sub"}
PubCalls == {i \in 1..Len(calls) : calls[i].kind = "pub"}
\* the call started while the connection state was Disconnected: the flag was
\* off and no connected event was being handled
IssuedDisconnected(i) == calls[i].disc /\ calls[i].quiet
OfflineSubs == {i \in SubCalls : IssuedDisconnected(i)}
\* the call has tested `connected` and acted on the outcome
Decided(i) == \A u \in Users : ~(pc[u] \in {"s111", "s114"} /\ arg[u] = i)
\* pending entries the running replay has not yet handed to the bridge
Unreplayed ==
    {k \in 1..Len(pending_subs) :
        CASE cbpc = "c144" -> k >= cbi
          [] cbpc = "c145" -> k > cbi
          [] OTHER -> TRUE}
StillPending(i) == Cardinality({k \in Unreplayed : pending_subs[k][3] = i})
ViaOf(i) == bridgeLog[LogPos(i)].via

\* C1: the subscribeTopic calls issued while Disconnected are received by the
\* bridge after the next connected event: exactly those are replayed, each once,
\* in the order in which they were issued.
C1_FifoReplay ==
    /\ (connected /\ cbpc \in {"idle", "d104"}) =>
          \A i \in OfflineSubs : Decided(i) => LogCount(i) = 1
    /\ \A k \in 1..Len(bridgeLog) :
          bridgeLog[k].via = "replay" => bridgeLog[k].id \in SubCalls
    /\ \A i, j \in OfflineSubs :
          (i < j /\ InLog(i) /\ InLog(j)) => LogPos(i) < LogPos(j)

\* C2: a publish issued while Disconnected is not handed to the bridge at that
\* moment; it is in the pending queue until the replay after the next connect
\* sends it.
C2_PublishBuffered ==
    \A i \in PubCalls :
        IssuedDisconnected(i) =>
            IF InLog(i) THEN ViaOf(i) = "replay" ELSE StillPending(i) = 1

\* C3: under every interleaving each subscribeTopic call has its subscription
\* handed to the bridge exactly once, inside the call or by one replay: never
\* twice, and once the call has tested the state, it is either handed over or
\* still pending, not both and not neither.
C3_ExactlyOnce ==
    \A i \in SubCalls :
        /\ LogCount(i) + StillPending(i) <= 1
        /\ Decided(i) => LogCount(i) + StillPending(i) = 1

C3_Witness ==
    /\ ndone = 2
    /\ \E i, j \in SubCalls :
          /\ InLog(i) /\ ViaOf(i) = "replay"
          /\ InLog(j) /\ ViaOf(j) = "direct"

\* C4: the connection-lost event sets the state to Disconnected and leaves the
\* pending queue and the handler table unchanged, and every subscribeTopic call
\* that starts after it and before the next connected event appends to the
\* pending queue instead of subscribing on the bridge.
C4_LostThenBuffer ==
    /\ [][(connected /\ ~connected') =>
            (pending_subs' = pending_subs /\ handlers' = handlers)]_vars
    /\ [](\A i \in SubCalls :
            (IssuedDisconnected(i) /\ Decided(i)) =>
                IF InLog(i) THEN ViaOf(i) = "replay" ELSE StillPending(i) = 1)

\* C5: the handler table maps each topic to the handler of the most recent
\* subscribeTopic call for it, and a message on a topic invokes exactly that
\* handler, once, with the message's payload, and no other handler.
C5_LastRegistrationWins ==
    /\ \A t \in Topics : handlers[t] = registered[t]
    /\ ninvoked = nmsgs
    /\ nmsgs > 0 =>
          /\ msgs.expected \in UserHandlers
          /\ invoked.handler = msgs.expected
          /\ invoked.payload = msgs.payload

C5_Witness ==
    /\ nmsgs > 0
    /\ msgs.replaced
    /\ invoked.handler = msgs.expected
    /\ invoked.payload = msgs.payload

\* C6: when the initial connect attempt fails, the connection manager stays
\* Disconnected and usable, and neither the driver nor the process terminates.
C6_ConnectFailureNotFatal ==
    init_failed => (drv = "ready" /\ ~connected /\ exit_code = Running)

\* C7: every publishCommand call eventually returns to its caller, even when the
\* bridge never acknowledges the message.
C7_PublishReturns ==
    \A u \in Users : (pc[u] = "p123") ~> (pc[u] = "idle")

\* =================================================== ROS robot: claims
\* every field of a document entry comes from one and the same update
OneUpdate(e) ==
    e.kind = "value" =>
        \A i, j \in 1..Len(e.fields) : e.fields[i] = e.fields[j] /\ e.fields[i] >= 1

\* C8: a status read concurrent with telemetry callbacks returns for each channel
\* the complete value of one single update: never fields of two updates of the
\* channel, never a ready flag with the value from before the first update.
C8_NoTornRead ==
    \A c \in Channels : OneUpdate(root[c]) /\ OneUpdate(sent[c])

C8_Witness ==
    /\ hpc = "send"
    /\ rpc = "flag"
    /\ root[rch].kind = "value"
    /\ Len(root[rch].fields) = 2
    /\ g_status[rch][1] # root[rch].fields[1]

\* C9: every ready flag is false initially, is true once the channel has had its
\* first update, never goes from true to false, and a callback changes the value
\* and the flag of its own channel only.
C9_ReadyFlags ==
    /\ \A c \in Channels : ~ready[c]
    /\ [][\A c \in Channels : ready[c] => ready'[c]]_vars
    /\ [][\A c \in Channels :
            (ready'[c] # ready[c] \/ g_status'[c] # g_status[c]) =>
                (rpc # "idle" /\ c = rch)]_vars
    /\ [](\A c \in Channels :
            ~(rpc # "idle" /\ rch = c) => (ready[c] <=> g_status[c][1] # 0))

C9_Witness ==
    /\ nupd = 2
    /\ rpc = "idle"
    /\ \E c, d \in Channels : ready[c] /\ g_status[c][1] = 2 /\ ~ready[d]

\* C10: in the document a status read returns, a channel that was not ready is
\* absent or null, and a channel that was ready is present with all its fields;
\* so a read before any message holds no channel value.
C10_ReadyIffPresent ==
    hpc = "send" =>
        \A c \in Channels :
            IF hready[c]
            THEN /\ root[c].kind = "value"
                 /\ Len(root[c].fields) = NFields(c)
                 /\ \A i \in 1..NFields(c) : root[c].fields[i] >= 1
            ELSE root[c].kind \in {"absent", "null"}

C10_Witness ==
    /\ hpc = "send"
    /\ root["battery"].kind = "null"
    /\ \E c \in Channels : hready[c] /\ root[c].kind = "value"

\* C11: a status read that starts after telemetry updates have completed
\* returns, for every channel, the value of the last update applied to that
\* channel, whatever the order of the updates of the other channels.
C11_LastWriterWins ==
    hpc = "send" =>
        \A c \in Channels :
            IF hlast[c] = 0
            THEN root[c].kind \in {"absent", "null"}
            ELSE /\ root[c].kind = "value"
                 /\ Len(root[c].fields) = NFields(c)
                 /\ \A i \in 1..NFields(c) : root[c].fields[i] = hlast[c]

C11_Witness ==
    /\ hpc = "send"
    /\ \E c \in Channels :
          /\ hlast[c] = 2
          /\ root[c] = JsonValue([i \in 1..NFields(c) |-> 2])
          /\ \A d \in Channels \ {c} : hlast[d] = 0

\* ================================================= ROS2 driver: steps
Exited == {"exit0", "exit1"}

\* main: EDGEDEVICE_NAME or EDGEDEVICE_NAMESPACE is not set (driver.cpp:294-297)
main_env_missing ==
    /\ mpc = "m289"
    /\ mpc' = "exit1"
    /\ UNCHANGED <<m_connected, lpc, new_phase, connected_, running, phase,
                   status_mtx, cp_phase, res, stable, sigint, ever_connected,
                   tick_calls, loop_result, sent_cmd, http_seq, http_at, nonRos2Vars>>

\* main: the EdgeDevice spec gives no address: report Unknown and return 1
\* (driver.cpp:311-315)
main_no_address ==
    /\ mpc = "m289"
    /\ \E ok \in PatchOutcomes : cp_phase' = Patched(cp_phase, "Unknown", ok)
    /\ mpc' = "exit1"
    /\ UNCHANGED <<m_connected, lpc, new_phase, connected_, running, phase,
                   status_mtx, res, stable, sigint, ever_connected, tick_calls,
                   loop_result, sent_cmd, http_seq, http_at, nonRos2Vars>>

\* main: bool connected = ros2_client.connect() (driver.cpp:318-319)
main_connect ==
    /\ mpc = "m289"
    /\ connected_' = ConnectResult
    /\ m_connected' = ConnectResult
    /\ ever_connected' = ConnectResult
    /\ mpc' = "m320"
    /\ UNCHANGED <<lpc, new_phase, running, phase, status_mtx, cp_phase, res,
                   stable, sigint, tick_calls, loop_result, sent_cmd, http_seq,
                   http_at, nonRos2Vars>>

\* main: patch_edgedevice_phase(..., connected ? "Running" : "Failed"), the
\* result is dropped (driver.cpp:320)
main_initial_patch ==
    /\ mpc = "m320"
    /\ \E ok \in PatchOutcomes :
          cp_phase' = Patched(cp_phase, InitialPhase(m_connected), ok)
    /\ mpc' = "m321"
    /\ UNCHANGED <<m_connected, lpc, new_phase, connected_, running, phase,
                   status_mtx, res, stable, sigint, ever_connected, tick_calls,
                   loop_result, sent_cmd, http_seq, http_at, nonRos2Vars>>

\* main: phase.store(connected ? "Running" : "Failed") (driver.cpp:321)
main_store ==
    /\ mpc = "m321"
    /\ phase' = InitialPhase(m_connected)
    /\ mpc' = "m324"
    /\ UNCHANGED <<m_connected, lpc, new_phase, connected_, running, status_mtx,
                   cp_phase, res, stable, sigint, ever_connected, tick_calls,
                   loop_result, sent_cmd, http_seq, http_at, nonRos2Vars>>

\* main: std::thread upd_thr(update_phase_thread, ...) (driver.cpp:324)
main_start_thread ==
    /\ mpc = "m324"
    /\ lpc' = "l268"
    /\ mpc' = "m338"
    /\ UNCHANGED <<m_connected, new_phase, connected_, running, phase, status_mtx,
                   cp_phase, res, stable, sigint, ever_connected, tick_calls,
                   loop_result, sent_cmd, http_seq, http_at, nonRos2Vars>>

\* main: svr.listen(host, port) (driver.cpp:338): it serves until the server is
\* stopped, which nothing in the file does, or returns at once when the socket
\* cannot be bound
main_listen ==
    /\ mpc = "m338"
    /\ \E bound \in BOOLEAN : mpc' = IF bound THEN "serving" ELSE "m340"
    /\ UNCHANGED <<m_connected, lpc, new_phase, connected_, running, phase,
                   status_mtx, cp_phase, res, stable, sigint, ever_connected,
                   tick_calls, loop_result, sent_cmd, http_seq, http_at, nonRos2Vars>>

\* main: running = false after listen has returned (driver.cpp:340)
main_stop_running ==
    /\ mpc = "m340"
    /\ running' = FALSE
    /\ mpc' = "m341"
    /\ UNCHANGED <<m_connected, lpc, new_phase, connected_, phase, status_mtx,
                   cp_phase, res, stable, sigint, ever_connected, tick_calls,
                   loop_result, sent_cmd, http_seq, http_at, nonRos2Vars>>

\* std::thread::join returns when the thread's function has returned
\* (driver.cpp:341, 265-280)
\* (NoWait: the variant that does not wait for the thread)
JoinedNoWait(l) == TRUE
Joined(l) == l = "done"

\* main: upd_thr.join() (driver.cpp:341)
main_join ==
    /\ mpc = "m341"
    /\ Joined(lpc)
    /\ mpc' = "m342"
    /\ UNCHANGED <<m_connected, lpc, new_phase, connected_, running, phase,
                   status_mtx, cp_phase, res, stable, sigint, ever_connected,
                   tick_calls, loop_result, sent_cmd, http_seq, http_at, nonRos2Vars>>

\* main: patch_edgedevice_phase(..., "Pending"); return 0 (driver.cpp:342-343)
main_final_patch ==
    /\ mpc = "m342"
    /\ \E ok \in PatchOutcomes : cp_phase' = Patched(cp_phase, "Pending", ok)
    /\ mpc' = "exit0"
    /\ UNCHANGED <<m_connected, lpc, new_phase, connected_, running, phase,
                   status_mtx, res, stable, sigint, ever_connected, tick_calls,
                   loop_result, sent_cmd, http_seq, http_at, nonRos2Vars>>

\* sigint_handler: running = false (driver.cpp:282-284, installed at 287)
sigint_handler ==
    /\ ~sigint
    /\ mpc \notin Exited
    /\ sigint' = TRUE
    /\ running' = FALSE
    /\ UNCHANGED <<mpc, m_connected, lpc, new_phase, connected_, phase, status_mtx,
                   cp_phase, res, stable, ever_connected, tick_calls, loop_result,
                   sent_cmd, http_seq, http_at, nonRos2Vars>>

\* the bridge session behind is_connected() drops or comes back. The client in
\* the file is a stub that sets connected_ in connect() only (driver.cpp:188-
\* 206); update_phase_thread polls is_connected() at every tick, and this step
\* is the session changing between two polls.
bridge_session_changes ==
    /\ ever_connected
    /\ ~stable
    /\ mpc \notin Exited
    /\ connected_' = ~connected_
    /\ UNCHANGED <<mpc, m_connected, lpc, new_phase, running, phase, status_mtx,
                   cp_phase, res, stable, sigint, ever_connected, tick_calls,
                   loop_result, sent_cmd, http_seq, http_at, nonRos2Vars>>

\* from here on the session keeps its state and every report is answered
environment_settles ==
    /\ ~stable
    /\ mpc \notin Exited
    /\ stable' = TRUE
    /\ UNCHANGED <<mpc, m_connected, lpc, new_phase, connected_, running, phase,
                   status_mtx, cp_phase, res, sigint, ever_connected, tick_calls,
                   loop_result, sent_cmd, http_seq, http_at, nonRos2Vars>>

\* update_phase_thread: while (running) (driver.cpp:268)
loop_test ==
    /\ lpc = "l268"
    /\ lpc' = IF running THEN "l270" ELSE "done"
    /\ tick_calls' = 0
    /\ UNCHANGED <<mpc, m_connected, new_phase, connected_, running, phase,
                   status_mtx, cp_phase, res, stable, sigint, ever_connected,
                   loop_result, sent_cmd, http_seq, http_at, nonRos2Vars>>

\* update_phase_thread: new_phase from bridge->is_connected() (driver.cpp:269-271)
loop_derive ==
    /\ lpc = "l270"
    /\ new_phase' = CandidatePhase(connected_)
    /\ lpc' = "l273"
    /\ UNCHANGED <<mpc, m_connected, connected_, running, phase, status_mtx,
                   cp_phase, res, stable, sigint, ever_connected, tick_calls,
                   loop_result, sent_cmd, http_seq, http_at, nonRos2Vars>>

\* update_phase_thread: lock status_mtx and compare (driver.cpp:273-274); when
\* the phases are equal the block ends and the thread sleeps
loop_compare ==
    /\ lpc = "l273"
    /\ status_mtx = NoOwner
    /\ IF Differs(phase, new_phase)
       THEN status_mtx' = "upd" /\ lpc' = "l275"
       ELSE status_mtx' = NoOwner /\ lpc' = "l278"
    /\ UNCHANGED <<mpc, m_connected, new_phase, connected_, running, phase,
                   cp_phase, res, stable, sigint, ever_connected, tick_calls,
                   loop_result, sent_cmd, http_seq, http_at, nonRos2Vars>>

\* update_phase_thread: if (patch_edgedevice_phase(ns, name, new_phase))
\* phase.store(new_phase); the block ends (driver.cpp:275-277)
loop_patch ==
    /\ lpc = "l275"
    /\ \E ok \in PatchOutcomes :
          /\ cp_phase' = Patched(cp_phase, new_phase, ok)
          /\ phase' = StoreOnSuccess(ok, phase, new_phase)
          /\ loop_result' = IF ok THEN "ok" ELSE "fail"
    /\ tick_calls' = tick_calls + 1
    /\ status_mtx' = NoOwner
    /\ lpc' = "l278"
    /\ UNCHANGED <<mpc, m_connected, new_phase, connected_, running, res, stable,
                   sigint, ever_connected, sent_cmd, http_seq, http_at, nonRos2Vars>>

\* update_phase_thread: sleep_for(5 s) and back to the loop test (driver.cpp:278)
loop_sleep ==
    /\ lpc = "l278"
    /\ lpc' = "l268"
    /\ UNCHANGED <<mpc, m_connected, new_phase, connected_, running, phase,
                   status_mtx, cp_phase, res, stable, sigint, ever_connected,
                   tick_calls, loop_result, sent_cmd, http_seq, http_at, nonRos2Vars>>

\* GET /healthz while the server listens (driver.cpp:334-336)
healthz ==
    /\ mpc = "serving"
    /\ res' = HealthzResponse
    /\ sent_cmd' = "none"
    /\ http_seq' = 1 - http_seq
    /\ http_at' = [body |-> NoBody, conn |-> connected_, phase |-> phase]
    /\ UNCHANGED <<mpc, m_connected, lpc, new_phase, connected_, running, phase,
                   status_mtx, cp_phase, stable, sigint, ever_connected,
                   tick_calls, loop_result, nonRos2Vars>>

\* POST /move while the server listens (driver.cpp:329-331, 227-257)
ros2_handle_move(body) ==
    /\ mpc = "serving"
    /\ res' = MoveResponse(body, connected_)
    /\ sent_cmd' = MoveSent(body)
    /\ http_seq' = 1 - http_seq
    /\ http_at' = [body |-> body, conn |-> connected_, phase |-> phase]
    /\ UNCHANGED <<mpc, m_connected, lpc, new_phase, connected_, running, phase,
                   status_mtx, cp_phase, stable, sigint, ever_connected,
                   tick_calls, loop_result, nonRos2Vars>>

Ros2MainStep ==
    \/ main_connect
    \/ main_initial_patch
    \/ main_store
    \/ main_start_thread
    \/ main_listen
    \/ main_stop_running
    \/ main_join
    \/ main_final_patch

Ros2LoopStep ==
    \/ loop_test
    \/ loop_derive
    \/ loop_compare
    \/ loop_patch
    \/ loop_sleep

Ros2Next ==
    \/ main_env_missing
    \/ main_no_address
    \/ Ros2MainStep
    \/ Ros2LoopStep
    \/ sigint_handler
    \/ bridge_session_changes
    \/ environment_settles
    \/ healthz
    \/ \E body \in MoveBodies : ros2_handle_move(body)

SpecRos2 == Init /\ [][Ros2Next]_vars

\* main and update_phase_thread are threads the scheduler keeps running, and
\* every call they make returns
FairSpecRos2 == SpecRos2 /\ WF_vars(Ros2MainStep) /\ WF_vars(Ros2LoopStep)

\* =================================================== ROS2 driver: claims
\* the phase the design derives from the session: Running when connected,
\* Pending when never yet connected, Failed when lost after having connected
DesignPhase(is_conn, ever) ==
    IF is_conn THEN "Running" ELSE IF ever THEN "Failed" ELSE "Pending"

C13_ReportOnlyOnChange ==
    /\ [](tick_calls <= 1)
    /\ [][tick_calls' > tick_calls => (lpc = "l275" /\ phase # new_phase)]_vars
    /\ [][(lpc = "l273" /\ lpc' # "l273" /\ phase = new_phase) =>
             (lpc' = "l278" /\ tick_calls' = 0 /\ cp_phase' = cp_phase)]_vars
    /\ [][(lpc = "l278" /\ lpc' # "l278") => cp_phase' = cp_phase]_vars

C13_Witness ==
    /\ lpc = "l278"
    /\ tick_calls = 0
    /\ loop_result = "ok"
    /\ phase = "Pending"
    /\ new_phase = "Pending"

\* C14: when a report call of the loop fails the reported phase keeps its value,
\* the loop keeps running and tries again at the next tick if the candidate still
\* differs; when the call succeeds the reported phase becomes the candidate.
C14_ReportFailureRetried ==
    /\ [][(lpc = "l275" /\ lpc' # "l275") =>
             /\ lpc' = "l278"
             /\ IF loop_result' = "ok" THEN phase' = new_phase
                                       ELSE phase' = phase]_vars
    /\ [][(lpc = "l273" /\ lpc' # "l273" /\ phase # new_phase) =>
             lpc' = "l275"]_vars
    /\ [][(lpc # "done" /\ lpc' = "done") => ~running]_vars

C14_Witness ==
    /\ lpc = "l275"
    /\ loop_result = "fail"
    /\ phase = "Running"
    /\ new_phase = "Pending"
    /\ cp_phase = "Running"

\* C15: after startup the reported phase (the global phase) is the phase of the
\* most recent report call the control plane acknowledged; it is never a phase
\* whose report failed.
C15_ReportedIsAcked ==
    mpc \in {"m324", "m338", "serving", "m340", "m341", "m342"} =>
        phase = cp_phase

\* C16: once the connection state no longer changes and report calls succeed,
\* the phase recorded at the control plane eventually equals the phase derived
\* from the connection state, whatever reports failed before.
C16_Converges ==
    (stable /\ mpc = "serving") ~>
        (cp_phase = CandidatePhase(connected_) \/ ~running)

\* C17: after SIGINT the loop eventually stops, the final report of Pending is
\* attempted, the listener stops and the process exits.
C17_SigintShutsDown ==
    sigint ~> (lpc \in {"off", "done"} /\ mpc \in Exited)

\* C18: while the process accepts requests GET /healthz answers success in every
\* connection state and for every reported phase, and the handler changes no
\* connection or phase state.
C18_HealthzAlwaysOk ==
    [][(http_seq' # http_seq /\ res'.route = "/healthz") =>
           /\ res'.status = 200
           /\ res'.st = "ok"
           /\ UNCHANGED <<connected_, ever_connected, phase, new_phase, cp_phase,
                          running, status_mtx, lpc, mpc>>]_vars

C18_Witness ==
    /\ res.route = "/healthz"
    /\ res.status = 200
    /\ ~http_at.conn
    /\ http_at.phase = "Pending"

\* ================================================= command requests
\* POST /move on the ROS robot driver (driver.cpp:342-344, 281-305)
rob_handle_move(body) ==
    /\ rob_alive
    /\ \E strict \in Builds :
          /\ rob_res' = RobMoveResponse(body, strict)
          /\ rob_pubs' = RobMovePublishes(body, strict)
    /\ rob_alive' = (rob_res'.msg # "terminate")
    /\ rob_req' = body
    /\ rob_seq' = 1 - rob_seq
    /\ UNCHANGED nonReqVars

\* POST /nav on the ROS robot driver (driver.cpp:339-341, 256-278)
rob_handle_nav(body) ==
    /\ rob_alive
    /\ rob_alive' = rob_alive
    /\ rob_res' = NavResponse(body)
    /\ rob_pubs' = NavPublishes(body)
    /\ rob_req' = body
    /\ rob_seq' = 1 - rob_seq
    /\ UNCHANGED nonReqVars

\* the request handlers of the two robot drivers, with the ROS2 driver brought
\* up to svr.listen and its bridge session free to change
RequestsNext ==
    \/ \E body \in CommandBodies : rob_handle_move(body)
    \/ \E body \in CommandBodies : rob_handle_nav(body)
    \/ main_connect
    \/ main_initial_patch
    \/ main_store
    \/ main_start_thread
    \/ main_listen
    \/ bridge_session_changes
    \/ \E body \in MoveBodies : ros2_handle_move(body)

SpecRequests == Init /\ [][RequestsNext]_vars

\* =================================================== command requests: claims
\* the fields an error message names
FieldsNamed(msg) ==
    CASE msg = "Missing 'linear' or 'angular'" -> {"linear", "angular"}
      [] msg = "Missing 'points' array" -> {"points"}
      [] msg = "Missing 'direction' field" -> {"direction"}
      [] OTHER -> {}

\* the required members a parsed body lacks, per request kind
MoveLacks(body) ==
    {f \in {"linear", "angular"} : body[f].t = "none"}

C20_ValidMovePublishesOnce ==
    [][(rob_seq' # rob_seq /\ rob_res'.route = "/move" /\ rob_req'.parses
         /\ rob_req'.linear.t = "num" /\ rob_req'.angular.t = "num") =>
          /\ Len(rob_pubs') = 1
          /\ rob_pubs'[1].topic = "/cmd_vel"
          /\ rob_pubs'[1].linear = rob_req'.linear.v
          /\ rob_pubs'[1].angular = rob_req'.angular.v
          /\ rob_res'.code = 200
          /\ rob_res'.status = "ok"
          /\ rob_res'.linear = rob_req'.linear.v
          /\ rob_res'.angular = rob_req'.angular.v]_vars

C20_Witness ==
    /\ rob_res.route = "/move"
    /\ rob_res.status = "ok"
    /\ rob_req.linear = Num(1)
    /\ rob_req.angular = Num(2)
    /\ rob_pubs = <<Twist(1, 2)>>

\* C21: a movement request of the ROS robot driver in which linear or angular
\* is present but not numeric is rejected with a client error and makes no
\* publish.
C21_NonNumericRejected ==
    [][(rob_seq' # rob_seq /\ rob_res'.route = "/move" /\ rob_req'.parses
         /\ MoveLacks(rob_req') = {}
         /\ (rob_req'.linear.t # "num" \/ rob_req'.angular.t # "num")) =>
          /\ rob_res'.code = 400
          /\ rob_pubs' = <<>>]_vars

\* =================================================== locks and I/O: claims
\* C22: no thread holds a lock while it performs an external I/O call: sub_mutex
\* is not held during a bridge subscribe and its wait, status_mtx is not held
\* during the control-plane report call, and g_status.mtx is not held while the
\* status response is sent.
C22_NoLockAcrossIO ==
    /\ \A u \in Users : pc[u] = "s112" => sub_mutex # u
    /\ cbpc = "c145" => sub_mutex # CB
    /\ lpc = "l275" => status_mtx = NoOwner
    /\ hpc = "send" => g_mtx # HTTP

\* ------------------------------------------------ replay and clear: claims
\* the pending entries the connected handler has handed to the bridge
Replayed(q) ==
    \A k \in 1..Len(q) : InLog(q[k][3]) /\ ViaOf(q[k][3]) = "replay"

\* C23: the connected handler's replay and clear are one critical section
\* with respect to subscribeTopic: while the handler is between taking
\* sub_mutex and the clear, no subscribeTopic call changes pending_subs; the
\* clear removes only entries the replay has issued to the bridge; and the
\* clear leaves the queue empty, so that whatever it holds later was
\* appended after the replay.
C23_ReplayAtomic ==
    [][/\ cbpc \in {"c144", "c145"} /\ cbpc' # "idle"
          => pending_subs' = pending_subs
       /\ cbpc = "c144" /\ cbpc' = "idle"
          => Replayed(pending_subs) /\ pending_subs' = <<>>
       /\ cbpc \notin {"c144", "c145"}
          => \A k \in 1..Len(pending_subs') : ~InLog(pending_subs'[k][3])]_vars

\* a subscribeTopic call that ran while the connected handler was running
\* appended its subscription, and the replay issued it before the clear
C23_Witness ==
    /\ ndone >= 1
    /\ cbpc = "idle"
    /\ pending_subs = <<>>
    /\ \E i \in SubCalls :
          ~calls[i].quiet /\ InLog(i) /\ ViaOf(i) = "replay"

\* ------------------------------------------------ POST /move status: claims
\* what a request body says of its direction
DirectionMissingOrEmpty(body) ==
    body.direction.t = "none" \/ body.direction = StrMember("")
DirectionValid(body) ==
    body.direction.t = "str" /\ body.direction.v \in ValidDirections

\* C24: POST /move of the ROS2 driver is answered 200 with status ok and the
\* direction echoed exactly when the body parses, its direction is one of the
\* five valid ones and the bridge is connected; 400 exactly when the body does
\* not parse or its direction is missing or empty; 500 in every other case;
\* and a 500 leaves the bridge connection state and the reported phase
\* unchanged.
C24_MoveStatus ==
    [][(http_seq' # http_seq /\ res'.route = "/move") =>
          LET body == http_at'.body
              ok == body.parses /\ DirectionValid(body) /\ http_at'.conn
              bad == ~body.parses \/ DirectionMissingOrEmpty(body)
          IN  /\ res'.status \in {200, 400, 500}
              /\ res'.status = 200 <=> ok
              /\ res'.status = 200 =>
                     res'.st = "ok" /\ res'.direction = body.direction.v
              /\ res'.status = 400 <=> bad
              /\ res'.status = 500 <=> (~ok /\ ~bad)
              /\ res'.status = 500 =>
                     UNCHANGED <<connected_, phase, cp_phase>>]_vars

\* ------------------------------------------ subscriptions and reconnect: claims
Quiescent == cbpc = "idle" /\ \A u \in Users : pc[u] = "idle"

\* C25: with a clean session and automatic reconnect, whenever the state is
\* Connected and the pending queue is empty (no call and no callback being in
\* progress), every topic with a registered handler has an active
\* subscription on the bridge; in particular the subscriptions that were
\* active before a connection loss are active again after the reconnect.
C25_SubscriptionsActive ==
    (connected /\ pending_subs = <<>> /\ Quiescent) =>
        /\ \A t \in Topics : handlers[t] # NoHandler => Subscribed(t)
        /\ \A k \in 1..Len(bridgeLog) :
              bridgeLog[k].op = "subscribe" => Subscribed(bridgeLog[k].topic)

\* ------------------------------------------------ sub_mutex deadlock: claims
\* C26: message dispatch, subscribeTopic and the reconnect replay never
\* deadlock on sub_mutex: no thread waits for sub_mutex while owning it, a
\* message handed to the dispatch callback has its handler invoked and
\* returned (also a handler that calls subscribeTopic from inside its
\* invocation), and the connected handler waiting for sub_mutex gets it; a
\* subscribeTopic call or a replay waiting for an acknowledgement of the
\* bridge does not hold up the dispatch for ever.
C26_NoDeadlock ==
    /\ [](cbpc = "s99" => sub_mutex # CB)
    /\ (cbpc = "d104") ~> (cbpc = "idle")
    /\ (cbpc = "c143") ~> (cbpc = "c144")

\* ------------------------------------------------ order of the reports: claims
\* the thread is at a call of patch_edgedevice_phase
MainReporting == mpc \in {"m320", "m342"}
LoopReporting == lpc = "l275"

\* C27: the reports of the ROS2 driver to the control plane never overlap and
\* the terminal one is the last: main's initial report completes before
\* the update loop is started, the loop is at no more than one report at a
\* time and at none while main reports, the final Pending report on shutdown is
\* issued only after the loop has stopped, and after it no report of the loop
\* changes what the control plane holds.
C27_ReportsOrdered ==
    /\ [](mpc \in {"m289", "m320", "m321", "m324"} => lpc = "off")
    /\ [](~(MainReporting /\ LoopReporting))
    /\ [](LoopReporting => status_mtx = "upd")
    /\ [](mpc \in {"m342", "exit0"} => lpc = "done")
    /\ [][mpc = "exit0" => (cp_phase' = cp_phase /\ lpc' = lpc)]_vars

\* the driver shut down after the loop had reported, and the final Pending
\* report reached the control plane
C27_Witness ==
    /\ mpc = "exit0"
    /\ lpc = "done"
    /\ loop_result = "ok"
    /\ cp_phase = "Pending"

====
